---- MODULE Spec2Model ----
(***************************************************************************)
(* The AdGroupForm component of the splice front end                       *)
(* (front_end/src/components/AdGroups/AdGroupForm/AdGroupForm.js): its     *)
(* props (AdGroup.details, AdGroup.isSaving, App.formChanged, the          *)
(* notification, Campaign.details.id, editMode), the uncontrolled DOM form *)
(* it renders, the jQuery 'change' handlers bound on the .js-select        *)
(* widgets, and the create/update requests in flight.                      *)
(*                                                                         *)
(* Text values are sequences of one-character strings; an optional id is   *)
(* <<>> (undefined) or <<n>>.                                              *)
(***************************************************************************)
EXTENDS Integers, Sequences, FiniteSets, Bags, TLC

VARIABLES
    mounted,      \* componentWillMount/render/componentDidMount have run
    editMode,     \* props.editMode
    details,      \* props.AdGroup.details
    isSaving,     \* props.AdGroup.isSaving
    campaignId,   \* props.Campaign.details.id
    formChanged,  \* props.App.formChanged (the dirty flag)
    message,      \* the App notification
    dom,          \* the uncontrolled inputs of <form id="AdGroupForm">
    handlers,     \* jQuery 'change' handlers bound on the .js-select elements
    inflight,     \* create/update promises not yet settled
    nav,          \* last path given to history.pushState
    scrollY,      \* window scroll position (0 = top)
    uncaught,     \* exception that escaped the last event handler
    typeTouched,  \* history: the type control was toggled since the form DOM was created
    openedType,   \* history: details.type when the form DOM was created
    session       \* history: handleChange was called / formChanged dispatches, since mount or formSaved

vars == <<mounted, editMode, details, isSaving, campaignId, formChanged, message,
          dom, handlers, inflight, nav, scrollY, uncaught, typeTouched,
          openedType, session>>

-----------------------------------------------------------------------------
\* Bounds of the model

MaxInFlight == 2

\* Program constants
MinLength == 2
MinCheck == 1

Undefined == "undefined"
NoId == <<>>
NoMessage == [type |-> "none", body |-> "", shown |-> FALSE]
NoError == "none"
ReferenceError == "ReferenceError: context is not defined"

Digits == {"0", "1", "2", "3", "4", "5", "6", "7", "8", "9"}

NameValues == {<<>>, <<"a">>, <<"a", "b">>}
CapValues == {<<>>, <<"5">>, <<"x">>}
CategoryValues == {{}, {"c1"}}
TypeValues == {Undefined, "suggested", "directory"}
EntityIds == {1, 2}
CampaignIds == {1}
ResultIds == {7, 42}
ServerMessages == {"bad locale"}

EmptyDetails(t) ==
    [id |-> NoId, type |-> t, name |-> <<>>, categories |-> {},
     frequency_cap_daily |-> <<>>, campaign_id |-> NoId]

StoredDetails(i, t) ==
    [id |-> <<i>>, type |-> t, name |-> <<"a", "b">>, categories |-> {"c1"},
     frequency_cap_daily |-> <<"5">>, campaign_id |-> <<1>>]

\* route parameter campaignId: present on the creation route only
ParamsCampaignId(em) == IF em THEN NoId ELSE <<1>>

-----------------------------------------------------------------------------
\* Reducers of the central store

AdGroupSetDetailsVar(d, value) == [d EXCEPT !.type = value]

DisplayMessage(type, body) == [type |-> type, body |-> body, shown |-> FALSE]

ShownMessage(m) == [m EXCEPT !.shown = TRUE]

FormChangedReducer == TRUE

FormSavedReducer == FALSE

RequestSaving == TRUE

ReceiveSaving == FALSE

-----------------------------------------------------------------------------
\* Lifecycle and render

ComponentWillMount(d) ==
    IF d.type = Undefined THEN AdGroupSetDetailsVar(d, "suggested") ELSE d

\* render, lines 56-60: a missing campaign_id is filled in from the route
RenderData(d, em) ==
    IF d.campaign_id = NoId
    THEN [d EXCEPT !.campaign_id = ParamsCampaignId(em)]
    ELSE d

FormKey(d, em) == IF em THEN <<"edit", d.id>> ELSE <<"create", d.campaign_id>>

DefaultChecked(t) == IF t = "suggested" \/ t = Undefined THEN FALSE ELSE TRUE

\* the inputs React creates for a new form element, from their default values
FreshDom(d) ==
    [name |-> d.name, type |-> DefaultChecked(d.type), categories |-> d.categories,
     frequency_cap_daily |-> d.frequency_cap_daily]

FieldDisabled(d) == d.type = "directory"

ComponentDidMount == <<"mount">>

\* jQuery handlers live on the DOM elements: a re-keyed form has none yet
SurvivingHandlers(hs, rekeyed) == IF rekeyed THEN <<>> ELSE hs

ComponentDidUpdate(prevD, prevC, d, c, hs) ==
    IF prevD.id # d.id \/ prevC # c THEN Append(hs, "update") ELSE hs

-----------------------------------------------------------------------------
\* Event handlers

\* mutant: the guard on App.formChanged is lost
HandleChange_NoGuard(fc) ==
    [formChanged |-> FormChangedReducer, dispatched |-> 1]

HandleChange(fc) ==
    IF fc # TRUE
    THEN [formChanged |-> FormChangedReducer, dispatched |-> 1]
    ELSE [formChanged |-> fc, dispatched |-> 0]

\* the closure bound by componentDidMount sees its `context`; the one bound by
\* componentDidUpdate refers to a `context` that is declared nowhere
HandlerThrows(h) == h = "update"

RECURSIVE RunHandlers(_, _, _, _)
RunHandlers(hs, fc, calls, dispatched) ==
    IF hs = <<>>
    THEN [formChanged |-> fc, calls |-> calls, dispatched |-> dispatched,
          uncaught |-> NoError]
    ELSE IF HandlerThrows(Head(hs))
    THEN [formChanged |-> fc, calls |-> calls, dispatched |-> dispatched,
          uncaught |-> ReferenceError]
    ELSE LET r == HandleChange(fc)
         IN RunHandlers(Tail(hs), r.formChanged, calls + 1,
                        dispatched + r.dispatched)

\* mutant: the test on the checkbox is inverted
HandleSwitchValue_Inverted(checked) == IF checked = TRUE THEN "suggested" ELSE "directory"

HandleSwitchValue(checked) == IF checked = TRUE THEN "directory" ELSE "suggested"

-----------------------------------------------------------------------------
\* Validation (the data-parsley-* attributes of render) and serialization

Required(v) == Len(v) > 0

MinLengthOk(v) == Len(v) >= MinLength

\* data-parsley-type="number", on the alphabet of the model
IsNumber(v) == Len(v) > 0 /\ \A i \in 1..Len(v) : v[i] \in Digits

MinCheckOk(s) == Cardinality(s) >= MinCheck

\* bindFormConfig leaves disabled fields out of validation
Excluded(d) == FieldDisabled(d)

NameValid(f) == Required(f.name) /\ MinLengthOk(f.name)

CategoriesValid(d, f) == Excluded(d) \/ MinCheckOk(f.categories)

\* the budget inputs are rendered on the creation form only
BudgetValid(d, f, em) ==
    em \/ Excluded(d) \/ (Required(f.frequency_cap_daily) /\ IsNumber(f.frequency_cap_daily))

Validate(d, f, em) == NameValid(f) /\ CategoriesValid(d, f) /\ BudgetValid(d, f, em)

\* $('#AdGroupForm').serializeJSON(): the successful controls in document
\* order; an unchecked checkbox, a disabled control and an empty multi-select
\* contribute nothing
SerializeJSON(d, f, em) ==
    (IF em THEN << <<"id", d.id>> >> ELSE <<>>)
    \o << <<"campaign_id", d.campaign_id>>, <<"name", f.name>> >>
    \o (IF f.type THEN << <<"type", "true">> >> ELSE <<>>)
    \o (IF ~FieldDisabled(d) /\ f.categories # {}
        THEN << <<"categories", f.categories>> >> ELSE <<>>)
    \o (IF ~em /\ ~FieldDisabled(d)
        THEN << <<"frequency_cap_daily", f.frequency_cap_daily>> >> ELSE <<>>)

HasKey(fd, k) == \E i \in 1..Len(fd) : fd[i][1] = k

Field(fd, k) == fd[CHOOSE i \in 1..Len(fd) : fd[i][1] = k][2]

\* mutant: the serialized checkbox value is sent as it is
Payload_Unforced(fd) ==
    IF ~HasKey(fd, "type") THEN Append(fd, <<"type", "suggested">>) ELSE fd

\* handleFormSubmit, lines 229-237: formData with its type forced, in the
\* key order JSON.stringify writes
Payload(fd) ==
    IF ~HasKey(fd, "type")
    THEN Append(fd, <<"type", "suggested">>)
    ELSE [i \in 1..Len(fd) |->
            IF fd[i][1] = "type" THEN <<"type", "directory">> ELSE fd[i]]

HandleCreate(data) == [op |-> "create", id |-> NoId, data |-> data]

HandleUpdate(d, data) == [op |-> "update", id |-> d.id, data |-> data]

\* mutant: the else is lost, create is dispatched after update as well
SubmitRequests_NoElse(d, data, em) ==
    (IF em THEN SetToBag({HandleUpdate(d, data)}) ELSE EmptyBag)
    (+) SetToBag({HandleCreate(data)})

\* handleFormSubmit, lines 239-245: the requests one validated submit dispatches
SubmitRequests(d, data, em) ==
    IF em THEN SetToBag({HandleUpdate(d, data)}) ELSE SetToBag({HandleCreate(data)})

ValidationErrorMessage == ShownMessage(DisplayMessage("error", "Validation Errors"))

\* mutant: the two texts are swapped
SuccessText_Swapped(em) ==
    IF em THEN "Ad Group Created Successfully" ELSE "Ad Group Updated Successfully"

SuccessText(em) ==
    IF em THEN "Ad Group Updated Successfully" ELSE "Ad Group Created Successfully"

DetailPath(id) == "/adgroups/" \o ToString(id)

NewSession == [edited |-> FALSE, dispatched |-> 0]

-----------------------------------------------------------------------------
Init ==
    /\ mounted = FALSE
    /\ editMode \in BOOLEAN
    /\ \E t \in TypeValues :
         details \in {EmptyDetails(t)} \cup (IF editMode THEN {StoredDetails(1, t)} ELSE {})
    /\ isSaving = FALSE
    /\ campaignId = NoId
    /\ formChanged = FALSE
    /\ message = NoMessage
    /\ dom = FreshDom(EmptyDetails(Undefined))
    /\ handlers = <<>>
    /\ inflight = EmptyBag
    /\ nav = ""
    /\ scrollY = 0
    /\ uncaught = NoError
    /\ typeTouched = FALSE
    /\ openedType = Undefined
    /\ session = NewSession

\* componentWillMount, the first render, componentDidMount
Mount ==
    /\ ~mounted
    /\ mounted' = TRUE
    /\ LET d == RenderData(ComponentWillMount(details), editMode)
       IN /\ details' = d
          /\ dom' = FreshDom(d)
    /\ handlers' = ComponentDidMount
    /\ openedType' = details.type
    /\ typeTouched' = FALSE
    /\ uncaught' = NoError
    /\ UNCHANGED <<editMode, isSaving, campaignId, formChanged, message, inflight,
                   nav, scrollY, session>>

\* a React onChange of the name input
EditName(v) ==
    /\ mounted
    /\ v # dom.name
    /\ dom' = [dom EXCEPT !.name = v]
    /\ LET r == HandleChange(formChanged)
       IN /\ formChanged' = r.formChanged
          /\ session' = [edited |-> TRUE,
                         dispatched |-> session.dispatched + r.dispatched]
    /\ handlers' = ComponentDidUpdate(details, campaignId, details, campaignId, handlers)
    /\ uncaught' = NoError
    /\ UNCHANGED <<mounted, editMode, details, isSaving, campaignId, message,
                   inflight, nav, scrollY, typeTouched, openedType>>

\* a React onChange of the frequency_cap_daily input
EditBudget(v) ==
    /\ mounted
    /\ ~editMode
    /\ ~FieldDisabled(details)
    /\ v # dom.frequency_cap_daily
    /\ dom' = [dom EXCEPT !.frequency_cap_daily = v]
    /\ LET r == HandleChange(formChanged)
       IN /\ formChanged' = r.formChanged
          /\ session' = [edited |-> TRUE,
                         dispatched |-> session.dispatched + r.dispatched]
    /\ handlers' = ComponentDidUpdate(details, campaignId, details, campaignId, handlers)
    /\ uncaught' = NoError
    /\ UNCHANGED <<mounted, editMode, details, isSaving, campaignId, message,
                   inflight, nav, scrollY, typeTouched, openedType>>

\* the select2 widget of the categories select triggers jQuery 'change'
SelectCategories(v) ==
    /\ mounted
    /\ ~FieldDisabled(details)
    /\ v # dom.categories
    /\ dom' = [dom EXCEPT !.categories = v]
    /\ LET r == RunHandlers(handlers, formChanged, 0, 0)
       IN /\ formChanged' = r.formChanged
          /\ session' = [edited |-> session.edited \/ r.calls > 0,
                         dispatched |-> session.dispatched + r.dispatched]
          /\ uncaught' = r.uncaught
    /\ handlers' = ComponentDidUpdate(details, campaignId, details, campaignId, handlers)
    /\ UNCHANGED <<mounted, editMode, details, isSaving, campaignId, message,
                   inflight, nav, scrollY, typeTouched, openedType>>

\* a click on the type checkbox: handleSwitch
HandleSwitch ==
    /\ mounted
    /\ dom' = [dom EXCEPT !.type = ~dom.type]
    /\ LET r == HandleChange(formChanged)
       IN /\ formChanged' = r.formChanged
          /\ session' = [edited |-> TRUE,
                         dispatched |-> session.dispatched + r.dispatched]
    /\ LET d == RenderData(AdGroupSetDetailsVar(details, HandleSwitchValue(dom'.type)),
                           editMode)
       IN /\ details' = d
          /\ handlers' = ComponentDidUpdate(details, campaignId, d, campaignId, handlers)
    /\ typeTouched' = TRUE
    /\ uncaught' = NoError
    /\ UNCHANGED <<mounted, editMode, isSaving, campaignId, message, inflight, nav,
                   scrollY, openedType>>

\* mutant: the result of form.validate() is not consulted
HandleFormSubmit_Unvalidated ==
    /\ mounted
    /\ BagCardinality(inflight) < MaxInFlight
    /\ inflight' = inflight (+)
           SubmitRequests(details, Payload(SerializeJSON(details, dom, editMode)),
                          editMode)
    /\ isSaving' = RequestSaving
    /\ handlers' = ComponentDidUpdate(details, campaignId, details, campaignId, handlers)
    /\ uncaught' = NoError
    /\ UNCHANGED <<mounted, editMode, details, campaignId, formChanged, dom, nav,
                   typeTouched, openedType, session, message, scrollY>>

\* a click on Save: handleFormSubmit
HandleFormSubmit ==
    /\ mounted
    /\ IF Validate(details, dom, editMode)
       THEN /\ BagCardinality(inflight) < MaxInFlight
            /\ inflight' = inflight (+)
                   SubmitRequests(details, Payload(SerializeJSON(details, dom, editMode)),
                                  editMode)
            /\ isSaving' = RequestSaving
            /\ UNCHANGED <<message, scrollY>>
       ELSE /\ message' = ValidationErrorMessage
            /\ scrollY' = 0
            /\ UNCHANGED <<inflight, isSaving>>
    /\ handlers' = ComponentDidUpdate(details, campaignId, details, campaignId, handlers)
    /\ uncaught' = NoError
    /\ UNCHANGED <<mounted, editMode, details, campaignId, formChanged, dom, nav,
                   typeTouched, openedType, session>>

\* mutant: the failure branch marks the form saved as well
HandleResponseError_Saves(req, m) ==
    /\ BagIn(req, inflight)
    /\ inflight' = inflight (-) SetToBag({req})
    /\ isSaving' = ReceiveSaving
    /\ message' = ShownMessage(DisplayMessage("error", m))
    /\ scrollY' = 0
    /\ formChanged' = FormSavedReducer
    /\ session' = NewSession
    /\ handlers' = ComponentDidUpdate(details, campaignId, details, campaignId, handlers)
    /\ uncaught' = NoError
    /\ UNCHANGED <<mounted, editMode, details, campaignId, dom, nav,
                   typeTouched, openedType>>

\* the promise of request req resolves with {message: m}: handleResponse
HandleResponseError(req, m) ==
    /\ BagIn(req, inflight)
    /\ inflight' = inflight (-) SetToBag({req})
    /\ isSaving' = ReceiveSaving
    /\ message' = ShownMessage(DisplayMessage("error", m))
    /\ scrollY' = 0
    /\ handlers' = ComponentDidUpdate(details, campaignId, details, campaignId, handlers)
    /\ uncaught' = NoError
    /\ UNCHANGED <<mounted, editMode, details, campaignId, formChanged, dom, nav,
                   typeTouched, openedType, session>>

\* the promise of request req resolves with {result: {id: n}}: handleResponse
HandleResponseSuccess(req, n) ==
    /\ BagIn(req, inflight)
    /\ inflight' = inflight (-) SetToBag({req})
    /\ isSaving' = ReceiveSaving
    /\ message' = DisplayMessage("success", SuccessText(editMode))
    /\ formChanged' = FormSavedReducer
    /\ session' = NewSession
    /\ nav' = DetailPath(n)
    /\ handlers' = ComponentDidUpdate(details, campaignId, details, campaignId, handlers)
    /\ uncaught' = NoError
    /\ UNCHANGED <<mounted, editMode, details, campaignId, dom, scrollY,
                   typeTouched, openedType>>

\* the promise of request req rejects: .then(onFulfilled) has no rejection handler
PromiseRejected(req) ==
    /\ BagIn(req, inflight)
    /\ inflight' = inflight (-) SetToBag({req})
    /\ uncaught' = NoError
    /\ UNCHANGED <<mounted, editMode, details, isSaving, campaignId, formChanged,
                   message, dom, handlers, nav, scrollY, typeTouched, openedType,
                   session>>

\* the edited entity arrives in the store: new props, render, componentDidUpdate
LoadAdGroup(i, t) ==
    /\ mounted
    /\ editMode
    /\ details.id # <<i>>
    /\ LET d == RenderData(StoredDetails(i, t), editMode)
           rekeyed == FormKey(d, editMode) # FormKey(details, editMode)
       IN /\ details' = d
          /\ dom' = IF rekeyed THEN FreshDom(d) ELSE dom
          /\ typeTouched' = IF rekeyed THEN FALSE ELSE typeTouched
          /\ openedType' = IF rekeyed THEN t ELSE openedType
          /\ handlers' = ComponentDidUpdate(details, campaignId, d, campaignId,
                                            SurvivingHandlers(handlers, rekeyed))
    /\ uncaught' = NoError
    /\ UNCHANGED <<mounted, editMode, isSaving, campaignId, formChanged, message,
                   inflight, nav, scrollY, session>>

\* the campaign arrives in the store: new props, render, componentDidUpdate
LoadCampaign(c) ==
    /\ mounted
    /\ campaignId # <<c>>
    /\ campaignId' = <<c>>
    /\ handlers' = ComponentDidUpdate(details, campaignId, details, <<c>>, handlers)
    /\ uncaught' = NoError
    /\ UNCHANGED <<mounted, editMode, details, isSaving, formChanged, message, dom,
                   inflight, nav, scrollY, typeTouched, openedType, session>>

\* the user scrolls down the page
Scroll ==
    /\ mounted
    /\ scrollY = 0
    /\ scrollY' = 1
    /\ uncaught' = NoError
    /\ UNCHANGED <<mounted, editMode, details, isSaving, campaignId, formChanged,
                   message, dom, handlers, inflight, nav, typeTouched, openedType,
                   session>>

Next ==
    \/ Mount
    \/ \E v \in NameValues : EditName(v)
    \/ \E v \in CapValues : EditBudget(v)
    \/ \E v \in CategoryValues : SelectCategories(v)
    \/ HandleSwitch
    \/ HandleFormSubmit
    \/ \E req \in BagToSet(inflight), m \in ServerMessages : HandleResponseError(req, m)
    \/ \E req \in BagToSet(inflight), n \in ResultIds : HandleResponseSuccess(req, n)
    \/ \E req \in BagToSet(inflight) : PromiseRejected(req)
    \/ \E i \in EntityIds, t \in {"suggested", "directory"} : LoadAdGroup(i, t)
    \/ \E c \in CampaignIds : LoadCampaign(c)
    \/ Scroll

Spec == Init /\ [][Next]_vars

-----------------------------------------------------------------------------
\* Properties

InFlightCount == BagCardinality(inflight)

\* the request a step adds to those in flight
Sent(r) == inflight' = inflight (+) SetToBag({r})

PayloadType(r) == Field(r.data, "type")

ExpectedPath(n) == CASE n = 7 -> "/adgroups/7" [] n = 42 -> "/adgroups/42"

\* C1: no create or update is dispatched while an earlier one of the same form
\* has not delivered its response: at most one submission is in flight.
C1_AtMostOneInFlight == InFlightCount <= 1

\* C2: a handleFormSubmit whose validation fails dispatches neither create nor
\* update; it raises the error notification 'Validation Errors', marks it
\* shown and scrolls to the top.
C2_InvalidSubmitNoDispatch ==
    [][(HandleFormSubmit /\ ~Validate(details, dom, editMode))
        => /\ inflight' = inflight
           /\ message' = [type |-> "error", body |-> "Validation Errors", shown |-> TRUE]
           /\ scrollY' = 0]_vars

\* C2 witness: a failed validation has raised its notification with nothing
\* sent, on an edit form that was edited and toggled before
C2_Witness ==
    /\ editMode
    /\ message.body = "Validation Errors"
    /\ session.edited
    /\ typeTouched
    /\ inflight = EmptyBag
    /\ scrollY = 0

\* C3 (as claimed): a validated submit after toggling the type control to
\* "directory" sends type "directory", and a validated submit with the type
\* control untouched sends type "suggested", whatever type the form opened with.
C3_UntouchedSendsSuggested ==
    [][(HandleFormSubmit /\ Validate(details, dom, editMode))
        => \A r \in BagToSet(inflight') :
             Sent(r) => /\ (typeTouched /\ dom.type) => PayloadType(r) = "directory"
                        /\ ~typeTouched => PayloadType(r) = "suggested"]_vars

\* C3 (amended): a validated submit after toggling the type control to
\* "directory" sends type "directory"; with the type control untouched it
\* sends "directory" when the form was opened on a record of type "directory"
\* and "suggested" when it was opened on type "suggested" or undefined.
C3_UntouchedSendsOpenedType ==
    [][(HandleFormSubmit /\ Validate(details, dom, editMode))
        => \A r \in BagToSet(inflight') :
             Sent(r) => /\ (typeTouched /\ dom.type) => PayloadType(r) = "directory"
                        /\ ~typeTouched =>
                             PayloadType(r) = (IF openedType = "directory"
                                               THEN "directory" ELSE "suggested")]_vars

\* C3 witness: a request sent from a form opened on a directory record whose
\* type control was never touched
C3_Witness ==
    /\ openedType = "directory"
    /\ ~typeTouched
    /\ \E r \in BagToSet(inflight) : PayloadType(r) = "directory"

\* C4: formChanged is dispatched by the first handleChange after mount or after
\* a formSaved, and by no later one until the next formSaved: one dispatch per
\* edit session.
C4_OneFormChangedPerSession ==
    mounted => session.dispatched = (IF session.edited THEN 1 ELSE 0)

\* C4 witness: after a successful save, a toggle and a name edit have been
\* made and formChanged was dispatched once
C4_Witness ==
    /\ nav # ""
    /\ typeTouched
    /\ dom.name = <<"a">>
    /\ session.edited
    /\ session.dispatched = 1

\* C5: a success response {result: {id: n}} raises the success notification
\* "Ad Group Updated Successfully" for an update and "Ad Group Created
\* Successfully" for a create, clears the dirty flag and navigates to
\* /adgroups/n.
C5_SuccessResponse ==
    [][\A req \in BagToSet(inflight), n \in ResultIds :
          HandleResponseSuccess(req, n)
          => /\ message'.type = "success"
             /\ message'.body = (IF req.op = "update"
                                 THEN "Ad Group Updated Successfully"
                                 ELSE "Ad Group Created Successfully")
             /\ formChanged' = FALSE
             /\ nav' = ExpectedPath(n)]_vars

\* C5 witness: an update made on a dirty form was answered with id 42
C5_Witness ==
    /\ editMode
    /\ nav = "/adgroups/42"
    /\ message = [type |-> "success", body |-> "Ad Group Updated Successfully",
                  shown |-> FALSE]
    /\ ~formChanged
    /\ typeTouched

\* C6: a response {message: m} raises the error notification m, marked shown,
\* scrolls to the top, does not navigate, does not dispatch formSaved (the
\* dirty flag keeps its value) and leaves the form mounted with its inputs.
C6_ErrorResponse ==
    [][\A req \in BagToSet(inflight), m \in ServerMessages :
          HandleResponseError(req, m)
          => /\ message' = [type |-> "error", body |-> m, shown |-> TRUE]
             /\ scrollY' = 0
             /\ nav' = nav
             /\ formChanged' = formChanged
             /\ session' = session
             /\ mounted'
             /\ dom' = dom
             /\ uncaught' = NoError]_vars

\* C6 witness: a dirty form holds the server's message and has not navigated
C6_Witness ==
    /\ message = [type |-> "error", body |-> "bad locale", shown |-> TRUE]
    /\ formChanged
    /\ nav = ""
    /\ scrollY = 0
    /\ inflight = EmptyBag

\* C7: a validated submit dispatches exactly one request: create when editMode
\* is false, update with the bound entity's id when editMode is true.
C7_ExactlyOneRequest ==
    [][(HandleFormSubmit /\ Validate(details, dom, editMode))
        => \E r \in BagToSet(inflight') :
             /\ Sent(r)
             /\ r.op = (IF editMode THEN "update" ELSE "create")
             /\ editMode => r.id = details.id]_vars

\* C7 witness: an update for entity 2 is in flight
C7_Witness ==
    /\ editMode
    /\ details.id = <<2>>
    /\ \E r \in BagToSet(inflight) : r.op = "update" /\ r.id = <<2>>

\* C8: every failed submission is user-visible: when the request's promise
\* rejects, an error notification is raised as for a server rejection (marked
\* shown, view scrolled to the top).
C8_RejectionIsNotified ==
    [][\A req \in BagToSet(inflight) :
          PromiseRejected(req)
          => /\ message'.type = "error"
             /\ message'.shown
             /\ scrollY' = 0]_vars

\* C9: after mount and after any number of re-binds, a multi-select 'change'
\* event invokes handleChange without error and dispatches formChanged at most
\* once.
C9_ChangeEventAfterRebind ==
    [][\A v \in CategoryValues :
          SelectCategories(v)
          => /\ uncaught' = NoError
             /\ session'.edited
             /\ session'.dispatched - session.dispatched <= 1]_vars

\* C10: details.type is "suggested" or "directory" and is "directory" exactly
\* when the toggle is checked; a toggle changes no details field but type and
\* no input but the toggle, so the category and budget values survive.
C10_TypeToggle ==
    /\ [](mounted => /\ details.type \in {"suggested", "directory"}
                     /\ (details.type = "directory") <=> dom.type)
    /\ [][HandleSwitch
          => /\ details'.type # details.type
             /\ [details' EXCEPT !.type = details.type] = details
             /\ [dom' EXCEPT !.type = dom.type] = dom]_vars

\* C10 witness: a creation form opened as suggested was switched to directory
\* and back, and still holds the categories and the cap entered before
C10_Witness ==
    /\ ~editMode
    /\ openedType \in {Undefined, "suggested"}
    /\ typeTouched
    /\ details.type = "suggested"
    /\ ~dom.type
    /\ dom.categories = {"c1"}
    /\ dom.frequency_cap_daily = <<"5">>

====
